---------------------------- MODULE Spec2Model ----------------------------
(***************************************************************************)
(* A model of the Notion journal migration script (src/main.py).           *)
(*                                                                         *)
(* Python values are represented as follows:                               *)
(*   dict  -> a function whose domain is a set of strings (a record);      *)
(*            the empty dict is the empty function << >>;                  *)
(*   list  -> a sequence;                                                  *)
(*   None  -> NoneStr where a string is expected, NoneDict where a dict    *)
(*            is expected (TLC compares only values of the same kind);     *)
(*   d.get(k, dflt) -> Get(d, k, dflt).                                    *)
(* Texts that the code slices, strips or searches are sequences of         *)
(* one-character strings; texts it only copies are TLA+ strings.           *)
(***************************************************************************)
EXTENDS Integers, Sequences, FiniteSets, TLC

VARIABLES
    \* convert_rich_text_item, applied once and then to its own output
    rt, new, new2, rt_pc,
    \* convert_block_for_append
    block, base, conv_pc,
    \* guess_title_and_date_from_page
    page_id, page, page_children, title, date_iso, meta_calls, meta_pc,
    \* migrate_page: the date it passes to create_database_page
    create_date_iso,
    \* extract_page_id: its argument, the identifier the argument was built
    \* around, the same locator around the identifier's other form, the result
    url_or_id, ext_id, ext_other, extracted, ext_pc,
    \* children_page_ids_from_parent: the workspace it walks (each block's type
    \* and listed children), its arguments, its locals, its position, the
    \* list calls it made, its result
    walk_types, walk_kids, parent_id, recursive, collected, stack, visited_blocks,
    walk_block_id, walk_start_cursor, walk_pc, walk_requests, out,
    \* main: the flags, the identifiers, the loop and its tallies
    DRY_RUN, client, page_ids, idx, succeeded, failed, pc,
    \* migrate_page: the result, the source page, the locals of the calls
    ok, src_tree, fetch_stack, src_children, db_props, new_page_id, converted,
    append_stack, appended_ids,
    \* what the run did: the blocks at the destination, the API operations
    \* issued by the page, the error caught, the last two calls or sleeps, the
    \* identifiers attempted, whether each page returned True
    dest, issued, error, last_ops, attempted, outcomes,
    \* the API calls of the page in the order issued, each with the function
    \* that issued it
    calls

rtVars   == <<rt, new, new2, rt_pc>>
convVars == <<block, base, conv_pc>>
metaVars == <<page_id, page, page_children, title, date_iso, meta_calls, meta_pc,
              create_date_iso>>
vars     == <<rt, new, new2, rt_pc, block, base, conv_pc,
              page_id, page, page_children, title, date_iso, meta_calls, meta_pc,
              create_date_iso,
              url_or_id, ext_id, ext_other, extracted, ext_pc,
              walk_types, walk_kids, parent_id, recursive, collected, stack,
              visited_blocks, walk_block_id, walk_start_cursor, walk_pc, walk_requests,
              out,
              DRY_RUN, client, page_ids, idx, succeeded, failed, pc,
              ok, src_tree, fetch_stack, src_children, db_props, new_page_id, converted,
              append_stack, appended_ids, dest, issued, error, last_ops, attempted,
              outcomes, calls>>
extVars  == <<url_or_id, ext_id, ext_other, extracted, ext_pc>>
walkVars == <<walk_types, walk_kids, parent_id, recursive, collected, stack,
              visited_blocks, walk_block_id, walk_start_cursor, walk_pc, walk_requests,
              out>>
pipeVars == <<DRY_RUN, client, page_ids, idx, succeeded, failed, pc,
              ok, src_tree, fetch_stack, src_children, db_props, new_page_id, converted,
              append_stack, appended_ids, dest, issued, error, last_ops, attempted,
              outcomes, calls>>

----------------------------------------------------------------------------
(* Python values *)

EmptyDict == << >>
NoneStr   == "None"
NoneDict  == [py_none |-> TRUE]

Get(d, k, dflt) == IF k \in DOMAIN d THEN d[k] ELSE dflt

\* truth value of a str-or-None
TruthyStr(s) == s # NoneStr /\ s # ""
\* truth value of a dict-or-None
TruthyDict(d) == d # NoneDict /\ DOMAIN d # {}

----------------------------------------------------------------------------
(* convert_rich_text_item *)

\* Mutant: the run's text falls back to text.content when plain_text is absent.
convert_rich_text_item_ContentFallback(r) ==
    LET rt_type == Get(r, "type", "text")
        content == IF "plain_text" \in DOMAIN r THEN r["plain_text"]
                   ELSE Get(Get(r, "text", EmptyDict), "content", "")
        text    == IF rt_type = "text" /\ TruthyStr(Get(r, "href", NoneStr))
                   THEN [content |-> content, link |-> [url |-> r["href"]]]
                   ELSE [content |-> content]
        n       == [type |-> "text", text |-> text]
        annotations == Get(r, "annotations", EmptyDict)
    IN  IF DOMAIN annotations # {}
        THEN n @@ ("annotations" :>
                 [bold          |-> Get(annotations, "bold", FALSE),
                  italic        |-> Get(annotations, "italic", FALSE),
                  strikethrough |-> Get(annotations, "strikethrough", FALSE),
                  underline     |-> Get(annotations, "underline", FALSE),
                  code          |-> Get(annotations, "code", FALSE),
                  color         |-> Get(annotations, "color", "default")])
        ELSE n

\* All four branches of the type dispatch build the same text run; only the
\* "text" branch adds the link.
convert_rich_text_item(r) ==
    LET rt_type == Get(r, "type", "text")
        content == Get(r, "plain_text", "")
        text    == IF rt_type = "text" /\ TruthyStr(Get(r, "href", NoneStr))
                   THEN [content |-> content, link |-> [url |-> r["href"]]]
                   ELSE [content |-> content]
        n       == [type |-> "text", text |-> text]
        annotations == Get(r, "annotations", EmptyDict)
    IN  IF DOMAIN annotations # {}
        THEN n @@ ("annotations" :>
                 [bold          |-> Get(annotations, "bold", FALSE),
                  italic        |-> Get(annotations, "italic", FALSE),
                  strikethrough |-> Get(annotations, "strikethrough", FALSE),
                  underline     |-> Get(annotations, "underline", FALSE),
                  code          |-> Get(annotations, "code", FALSE),
                  color         |-> Get(annotations, "color", "default")])
        ELSE n

\* _copy_rts: `rt_arr or []`, converted run by run
copy_rts(rt_arr) == [i \in 1..Len(rt_arr) |-> convert_rich_text_item(rt_arr[i])]

(* Source runs: every combination of present / absent keys. *)
RunTypePart == {EmptyDict} \cup {"type" :> t : t \in {"text", "mention", "equation", "date"}}
RunTextPart == {EmptyDict} \cup {"plain_text" :> s : s \in {"", "Notes"}}
RunHrefPart == {EmptyDict, "href" :> NoneStr, "href" :> "https://example.org"}
FullAnnotations ==
    [bold |-> TRUE, italic |-> FALSE, strikethrough |-> FALSE,
     underline |-> TRUE, code |-> FALSE, color |-> "red"]
RunAnnPart ==
    {EmptyDict, "annotations" :> EmptyDict, "annotations" :> [bold |-> TRUE],
     "annotations" :> FullAnnotations}
SourceRuns ==
    {t @@ p @@ h @@ a : t \in RunTypePart, p \in RunTextPart,
                        h \in RunHrefPart, a \in RunAnnPart}

RichTextIdle ==
    /\ rt = EmptyDict
    /\ new = EmptyDict
    /\ new2 = EmptyDict
    /\ rt_pc = "idle"

InitRichText ==
    /\ rt \in SourceRuns
    /\ new = EmptyDict
    /\ new2 = EmptyDict
    /\ rt_pc = "source"

\* new = convert_rich_text_item(rt)
ConvertRichTextItem ==
    /\ rt_pc = "source"
    /\ new' = convert_rich_text_item(rt)
    /\ rt_pc' = "once"
    /\ UNCHANGED <<rt, new2>>

\* the converter applied to its own output
ReconvertRichTextItem ==
    /\ rt_pc = "once"
    /\ new2' = convert_rich_text_item(new)
    /\ rt_pc' = "twice"
    /\ UNCHANGED <<rt, new>>

----------------------------------------------------------------------------
(* convert_block_for_append *)

\* block types whose branch reads block[btype].get("rich_text", [])
RichTextTypes ==
    {"paragraph", "heading_1", "heading_2", "heading_3", "bulleted_list_item",
     "numbered_list_item", "to_do", "quote", "code", "callout"}
\* the types the if/elif chain names
SupportedTypes == RichTextTypes \cup {"divider", "embed", "image", "file"}

\* Mutant: the fallback looks under "paragraph" only.
FallbackKeys_ParagraphOnly == <<"paragraph">>

\* the keys the fallback branch searches for salvageable rich text, in order
FallbackKeys ==
    <<"paragraph", "heading_1", "heading_2", "heading_3", "bulleted_list_item",
      "numbered_list_item">>

PlaceholderParagraph(content) ==
    [object |-> "block", type |-> "paragraph",
     paragraph |-> [rich_text |-> <<[type |-> "text", text |-> [content |-> content]]>>]]

ImageRemovedText == "[Image removed - original not accessible]"
FileRemovedText  == "[File removed - original not accessible]"
UnsupportedText(btype) ==
    "[Unsupported block type copied as placeholder: " \o btype \o "]"

\* `"external" in obj and obj["external"].get("url")`, for sub = "external" or "file"
RefHasUrl(obj, sub) ==
    /\ sub \in DOMAIN obj
    /\ TruthyStr(Get(obj[sub], "url", NoneStr))

\* The image / file branch: rewritten to one external URL, or the placeholder.
MediaBlock(b, btype, removed) ==
    LET obj == Get(b, btype, EmptyDict)
    IN  IF RefHasUrl(obj, "external")
        THEN [object |-> "block", type |-> btype]
               @@ (btype :> [type |-> "external", external |-> [url |-> obj["external"]["url"]]])
        ELSE IF RefHasUrl(obj, "file")
        THEN [object |-> "block", type |-> btype]
               @@ (btype :> [type |-> "external", external |-> [url |-> obj["file"]["url"]]])
        ELSE PlaceholderParagraph(removed)

\* The else branch: an unrecognized type.
FallbackBlock(b, btype) ==
    LET found == {i \in 1..Len(FallbackKeys) :
                     /\ TruthyDict(Get(b, FallbackKeys[i], NoneDict))
                     /\ Get(b[FallbackKeys[i]], "rich_text", << >>) # << >>}
    IN  IF found # {}
        THEN LET i == CHOOSE j \in found : \A k \in found : j <= k
             IN  [object |-> "block", type |-> "paragraph",
                  paragraph |-> [rich_text |-> copy_rts(b[FallbackKeys[i]]["rich_text"])]]
        ELSE PlaceholderParagraph(UnsupportedText(btype))

\* The if/elif chain of convert_block_for_append, before children are attached.
ConvertOwn(b) ==
    LET btype == Get(b, "type", NoneStr)
        head  == [object |-> "block", type |-> btype]
        rts   == copy_rts(Get(b[btype], "rich_text", << >>))
    IN  CASE btype \in {"paragraph", "heading_1", "heading_2", "heading_3",
                        "bulleted_list_item", "numbered_list_item", "quote"} ->
                head @@ (btype :> [rich_text |-> rts])
          [] btype = "to_do" ->
                head @@ (btype :> [rich_text |-> rts,
                                   checked |-> Get(b[btype], "checked", FALSE)])
          [] btype = "code" ->
                head @@ (btype :> [rich_text |-> rts,
                                   language |-> Get(b[btype], "language", "plain text")])
          [] btype = "callout" ->
                head @@ (btype :> [rich_text |-> rts,
                                   icon |-> Get(b[btype], "icon", NoneDict)])
          [] btype = "divider" -> head @@ (btype :> EmptyDict)
          [] btype = "embed" ->
                head @@ (btype :> [url |-> Get(b[btype], "url", NoneStr)])
          [] btype = "image" -> MediaBlock(b, btype, ImageRemovedText)
          [] btype = "file"  -> MediaBlock(b, btype, FileRemovedText)
          [] OTHER -> FallbackBlock(b, btype)

\* Whether the if/elif chain raises on b: block[btype] with the key missing
\* (KeyError), .get on None (AttributeError), `in` on None (TypeError).
OwnRaises(b) ==
    LET btype == Get(b, "type", NoneStr)
    IN  CASE btype \in RichTextTypes \cup {"embed"} ->
                IF btype \notin DOMAIN b THEN TRUE ELSE b[btype] = NoneDict
          [] btype \in {"image", "file"} ->
                LET obj == Get(b, btype, EmptyDict)
                IN  IF obj = NoneDict THEN TRUE
                    ELSE IF "external" \in DOMAIN obj /\ obj["external"] = NoneDict
                    THEN TRUE
                    ELSE IF RefHasUrl(obj, "external") THEN FALSE
                    ELSE "file" \in DOMAIN obj /\ obj["file"] = NoneDict
          [] OTHER -> FALSE

\* block.get("_children") or []
Children(b) == Get(b, "_children", << >>)

\* Mutant: children are attached before the type dispatch, so a branch that
\* replaces base by a placeholder paragraph loses them.
WithChildren_LostOnPlaceholder(b, own, kids) ==
    IF kids # << >> /\ own["type"] = Get(b, "type", NoneStr)
    THEN own @@ ("_children" :> kids)
    ELSE own

\* `if block.get("_children"): base["_children"] = [...]`, after the dispatch
WithChildren(b, own, kids) ==
    IF kids # << >> THEN own @@ ("_children" :> kids) ELSE own

RECURSIVE ConvertRaises(_)
ConvertRaises(b) ==
    \/ OwnRaises(b)
    \/ \E i \in 1..Len(Children(b)) : ConvertRaises(Children(b)[i])

RECURSIVE convert_block_for_append(_)
convert_block_for_append(b) ==
    WithChildren(b, ConvertOwn(b),
                 [i \in 1..Len(Children(b)) |-> convert_block_for_append(Children(b)[i])])

(* Source blocks, as the API returns them and as fetch_all_children nests them. *)

MaxBlocks == 3

ApiRun(text) ==
    [type |-> "text", plain_text |-> text, href |-> NoneStr,
     annotations |-> FullAnnotations]
TextPayload(text) == [rich_text |-> <<ApiRun(text)>>]

WellFormedLeaves ==
    {[type |-> "paragraph", paragraph |-> TextPayload("p")],
     [type |-> "heading_2", heading_2 |-> TextPayload("h")],
     [type |-> "bulleted_list_item", bulleted_list_item |-> [rich_text |-> << >>]],
     [type |-> "to_do", to_do |-> [rich_text |-> <<ApiRun("t")>>, checked |-> TRUE]],
     [type |-> "quote", quote |-> TextPayload("q")],
     [type |-> "code", code |-> [rich_text |-> <<ApiRun("c")>>, language |-> "python"]],
     [type |-> "code", code |-> TextPayload("c")],
     [type |-> "callout", callout |-> TextPayload("!")],
     [type |-> "divider", divider |-> EmptyDict],
     [type |-> "embed", embed |-> [url |-> "https://example.org/e"]],
     [type |-> "image", image |-> [type |-> "external",
                                  external |-> [url |-> "https://example.org/i"]]],
     [type |-> "image", image |-> [type |-> "file",
                                  file |-> [url |-> "https://files/i"]]],
     [type |-> "image", image |-> [type |-> "file", file |-> [url |-> ""]]],
     [type |-> "image"],
     [type |-> "file", file |-> [type |-> "file", file |-> [url |-> "https://files/f"]]],
     [type |-> "file", file |-> [type |-> "external", external |-> EmptyDict]],
     [type |-> "toggle", toggle |-> TextPayload("g")],
     [type |-> "table_of_contents", table_of_contents |-> EmptyDict]}

\* Blocks the API contract does not produce: a known type whose payload is
\* missing or null, a media payload whose reference is null.
MalformedLeaves ==
    {[type |-> "paragraph"],
     [type |-> "paragraph", paragraph |-> NoneDict],
     [type |-> "to_do", to_do |-> NoneDict],
     [type |-> "embed"],
     [type |-> "image", image |-> NoneDict],
     [type |-> "image", image |-> [type |-> "external", external |-> NoneDict]],
     [type |-> "file", file |-> [external |-> [url |-> ""], file |-> NoneDict]]}

\* Blocks of an unrecognized type (or of no type at all) that carry up to two
\* of the text-bearing container keys; the text under key k reads k.
ContainerPayloads(k) == {TextPayload(k), [rich_text |-> << >>], EmptyDict}
ContainerParts ==
    {EmptyDict} \cup UNION {{k :> pl : pl \in ContainerPayloads(k)} : k \in RichTextTypes}
UnsupportedLeaves ==
    {t @@ a @@ c : t \in {EmptyDict, [type |-> "toggle", toggle |-> TextPayload("g")]},
                   a \in ContainerParts, c \in ContainerParts}

\* The block kinds nested into trees: a kept type, a media block downgraded to
\* a placeholder, an unrecognized type, a malformed block.
TreePalette ==
    {[type |-> "paragraph", paragraph |-> TextPayload("p")],
     [type |-> "image", image |-> [type |-> "file", file |-> [url |-> ""]]],
     [type |-> "toggle", toggle |-> TextPayload("g")],
     [type |-> "paragraph", paragraph |-> NoneDict]}

RECURSIVE TreesOfSize(_, _)
RECURSIVE ForestsOfSize(_, _)
\* every sequence of trees over palette P with n blocks in total
ForestsOfSize(P, n) ==
    IF n = 0 THEN {<< >>}
    ELSE UNION {{<<t>> \o f : t \in TreesOfSize(P, k), f \in ForestsOfSize(P, n - k)} :
                k \in 1..n}
\* every tree over palette P with n blocks
TreesOfSize(P, n) ==
    {IF f = << >> THEN leaf ELSE leaf @@ ("_children" :> f) :
        leaf \in P, f \in ForestsOfSize(P, n - 1)}

ConvertInputs ==
    WellFormedLeaves \cup MalformedLeaves \cup UnsupportedLeaves
      \cup UNION {TreesOfSize(TreePalette, n) : n \in 1..MaxBlocks}

ConvertIdle ==
    /\ block = EmptyDict
    /\ base = EmptyDict
    /\ conv_pc = "idle"

InitConvert ==
    /\ block \in ConvertInputs
    /\ base = EmptyDict
    /\ conv_pc = "call"

\* convert_block_for_append(block) returns base
ConvertBlockForAppend ==
    /\ conv_pc = "call"
    /\ ~ConvertRaises(block)
    /\ base' = convert_block_for_append(block)
    /\ conv_pc' = "returned"
    /\ UNCHANGED block

\* convert_block_for_append(block) raises
ConvertBlockForAppendRaises ==
    /\ conv_pc = "call"
    /\ ConvertRaises(block)
    /\ conv_pc' = "raised"
    /\ UNCHANGED <<block, base>>

----------------------------------------------------------------------------
(* guess_title_and_date_from_page *)

\* Texts this function strips, searches and slices: sequences of characters.
IsSpace(c) == c \in {" ", "\t", "\n"}
IsDigit(c) == c \in {"0", "1", "2", "3", "4", "5", "6", "7", "8", "9"}

RECURSIVE LStrip(_)
LStrip(s) == IF s # << >> /\ IsSpace(Head(s)) THEN LStrip(Tail(s)) ELSE s
RECURSIVE RStrip(_)
RStrip(s) ==
    IF s # << >> /\ IsSpace(s[Len(s)]) THEN RStrip(SubSeq(s, 1, Len(s) - 1)) ELSE s

\* Mutant: the rendered text is used as it is, not stripped.
Strip_Identity(s) == s

\* str.strip()
Strip(s) == LStrip(RStrip(s))

\* plain_text_from_rich_text: the runs' plain_text joined
RECURSIVE plain_text_from_rich_text(_)
plain_text_from_rich_text(rich_text_array) ==
    IF rich_text_array = << >> THEN << >>
    ELSE Get(Head(rich_text_array), "plain_text", << >>)
           \o plain_text_from_rich_text(Tail(rich_text_array))

\* re.search(r"(\d{4}-\d{2}-\d{2})", title): the positions where it matches
DateMatchAt(s, i) ==
    /\ i + 9 <= Len(s)
    /\ \A k \in {0, 1, 2, 3, 5, 6, 8, 9} : IsDigit(s[i + k])
    /\ s[i + 4] = "-"
    /\ s[i + 7] = "-"
DateMatches(s) == {i \in 1..Len(s) : DateMatchAt(s, i)}
FirstDate(s) ==
    LET i == CHOOSE j \in DateMatches(s) : \A k \in DateMatches(s) : j <= k
    IN  SubSeq(s, i, i + 9)

\* created.split("T")[0]
BeforeT(s) ==
    LET ts == {i \in 1..Len(s) : s[i] = "T"}
    IN  IF ts = {} THEN s
        ELSE SubSeq(s, 1, (CHOOSE j \in ts : \A k \in ts : j <= k) - 1)

\* None where a text is expected
NoneText == <<"None">>

ImportedPrefix == <<"I", "m", "p", "o", "r", "t", "e", "d", " ", "p", "a", "g", "e", " ">>

\* page_size of the metadata child-block listing
MetaPageSize == 50

\* client.blocks.children.list(block_id=page_id, page_size=50).get("results", [])
FirstPageOfChildren(all_children) ==
    SubSeq(all_children, 1,
           IF Len(all_children) < MetaPageSize THEN Len(all_children) ELSE MetaPageSize)

\* The loop over page["properties"]: the value title is left with.  props is
\* the sequence of property values in the dict's iteration order.
RECURSIVE TitleFromProps(_, _)
TitleFromProps(props, title_so_far) ==
    IF props = << >> THEN title_so_far
    ELSE LET v == Head(props)
         IN  IF Get(v, "type", NoneStr) = "title"
             THEN LET t == Strip(plain_text_from_rich_text(Get(v, "title", << >>)))
                  IN  IF t # << >> THEN t ELSE TitleFromProps(Tail(props), t)
             ELSE TitleFromProps(Tail(props), title_so_far)

MetaBlockKeys == <<"heading_1", "heading_2", "heading_3", "paragraph">>

\* The inner loop over ("heading_1", "heading_2", "heading_3", "paragraph"):
\* the text of the first key that holds rich text, or None.
TextOfChild(b) ==
    LET hits == {i \in 1..Len(MetaBlockKeys) :
                    /\ TruthyDict(Get(b, MetaBlockKeys[i], NoneDict))
                    /\ Get(b[MetaBlockKeys[i]], "rich_text", << >>) # << >>}
    IN  IF hits = {} THEN NoneText
        ELSE LET i == CHOOSE j \in hits : \A k \in hits : j <= k
             IN  Strip(plain_text_from_rich_text(b[MetaBlockKeys[i]]["rich_text"]))

\* The loop over the listed children: the first child whose text is
\* non-empty gives the title.
RECURSIVE TitleFromChildren(_)
TitleFromChildren(children) ==
    IF children = << >> THEN NoneText
    ELSE LET t == TextOfChild(Head(children))
         IN  IF t # NoneText /\ t # << >> THEN t
             ELSE TitleFromChildren(Tail(children))

Falsy(text) == text = NoneText \/ text = << >>

\* title after the properties loop and, if still empty, the children loop
ResolvedTitle(pg, all_children) ==
    LET from_props == TitleFromProps(Get(pg, "properties", << >>), NoneText)
    IN  IF Falsy(from_props)
        THEN TitleFromChildren(FirstPageOfChildren(all_children))
        ELSE from_props

\* whether the function lists the page's children
ListsChildren(pg) == Falsy(TitleFromProps(Get(pg, "properties", << >>), NoneText))

\* the returned title
GuessedTitle(pid, pg, all_children) ==
    LET t == ResolvedTitle(pg, all_children)
    IN  IF Falsy(t) THEN ImportedPrefix \o SubSeq(pid, 1, IF Len(pid) < 8 THEN Len(pid) ELSE 8)
        ELSE t

\* the returned date_iso (None when neither the title nor created_time gives one)
GuessedDate(pg, all_children) ==
    LET t == ResolvedTitle(pg, all_children)
        created == Get(pg, "created_time", NoneText)
    IN  IF ~Falsy(t) /\ DateMatches(t) # {} THEN FirstDate(t)
        ELSE IF ~Falsy(created) THEN BeforeT(created)
        ELSE NoneText

(* Pages and child blocks the source API may return. *)

MaxProps == 2
MaxPageChildren == 2

Txt_Space    == <<" ">>
Txt_Hi       == <<"H", "i">>
Txt_PaddedHi == <<" ", "H", "i", " ">>
Txt_Log      == <<"L", "o", "g", " ", "2", "0", "2", "4", "-", "0", "3", "-", "1", "5">>
Txt_H1       == <<"H", "1">>
Txt_H3       == <<"H", "3", " ">>
Txt_Para     == <<"P", "a", "r", "a">>
SamplePageId == <<"1", "a", "2", "b", "3", "c", "4", "d", "-", "0", "0", "0", "0", "-", "4", "0", "0", "0", "-", "8", "0", "0", "0", "-", "1", "2", "3", "4", "5", "6", "7", "8", "9", "a", "b", "c">>
CreatedTimes ==
    {NoneText, <<"2", "0", "2", "3", "-", "1", "1", "-", "0", "5", "T", "0", "9", ":", "3", "0", ":", "0", "0", ".", "0", "0", "0", "Z">>, <<"y", "e", "s", "t", "e", "r", "d", "a", "y">>,
     <<"T", "0", "9", ":", "3", "0">>}

\* the dates datetime.utcnow().strftime("%Y-%m-%d") may give
UtcToday == {<<"2", "0", "2", "6", "-", "1", "1", "-", "0", "6">>}

MetaRun(text) == [type |-> "text", plain_text |-> text]
TitleArrays ==
    {<< >>, <<MetaRun(Txt_Space)>>, <<MetaRun(Txt_PaddedHi)>>, <<MetaRun(Txt_Log)>>,
     <<MetaRun(Txt_Space), MetaRun(Txt_Hi)>>}
PropertyValues ==
    {[type |-> "title", title |-> a] : a \in TitleArrays}
      \cup {[type |-> "rich_text", rich_text |-> <<MetaRun(Txt_Para)>>]}
PageChildBlocks ==
    {[type |-> "heading_1", heading_1 |-> [rich_text |-> <<MetaRun(Txt_H1)>>]],
     [type |-> "heading_2", heading_2 |-> [rich_text |-> <<MetaRun(Txt_Space)>>]],
     [type |-> "heading_3", heading_3 |-> [rich_text |-> <<MetaRun(Txt_H3)>>]],
     [type |-> "paragraph", paragraph |-> [rich_text |-> <<MetaRun(Txt_Para)>>]],
     [type |-> "paragraph", paragraph |-> [rich_text |-> << >>]],
     [type |-> "bulleted_list_item",
      bulleted_list_item |-> [rich_text |-> <<MetaRun(Txt_Hi)>>]]}

SeqsUpTo(S, n) == UNION {[1..k -> S] : k \in 0..n}

MetaIdle ==
    /\ page_id = << >>
    /\ page = EmptyDict
    /\ page_children = << >>
    /\ title = NoneText
    /\ date_iso = NoneText
    /\ meta_calls = << >>
    /\ meta_pc = "idle"
    /\ create_date_iso = NoneText

InitMeta ==
    /\ page_id = SamplePageId
    /\ \E props \in SeqsUpTo(PropertyValues, MaxProps), created \in CreatedTimes :
          page = IF created = NoneText THEN [properties |-> props]
                 ELSE [properties |-> props, created_time |-> created]
    /\ page_children \in SeqsUpTo(PageChildBlocks, MaxPageChildren)
    /\ title = NoneText
    /\ date_iso = NoneText
    /\ meta_calls = << >>
    /\ meta_pc = "call"
    /\ create_date_iso = NoneText

\* guess_title_and_date_from_page(page_id) returns (title, date_iso)
GuessTitleAndDate ==
    /\ meta_pc = "call"
    /\ title' = GuessedTitle(page_id, page, page_children)
    /\ date_iso' = GuessedDate(page, page_children)
    /\ meta_calls' = IF ListsChildren(page)
                     THEN <<"pages.retrieve", "blocks.children.list">>
                     ELSE <<"pages.retrieve">>
    /\ meta_pc' = "returned"
    /\ UNCHANGED <<page_id, page, page_children, create_date_iso>>

\* client.pages.retrieve raises; the error propagates
GuessTitleRetrieveRaises ==
    /\ meta_pc = "call"
    /\ meta_calls' = <<"pages.retrieve">>
    /\ meta_pc' = "raised"
    /\ UNCHANGED <<page_id, page, page_children, title, date_iso, create_date_iso>>

\* client.blocks.children.list raises; the error propagates
GuessTitleListRaises ==
    /\ meta_pc = "call"
    /\ ListsChildren(page)
    /\ meta_calls' = <<"pages.retrieve", "blocks.children.list">>
    /\ meta_pc' = "raised"
    /\ UNCHANGED <<page_id, page, page_children, title, date_iso, create_date_iso>>

\* migrate_page: `if not date_iso:` the current date is substituted; the
\* result is what create_database_page is called with
SubstituteToday ==
    /\ meta_pc = "returned"
    /\ IF Falsy(date_iso)
       THEN create_date_iso' \in UtcToday
       ELSE create_date_iso' = date_iso
    /\ meta_pc' = "dated"
    /\ UNCHANGED <<page_id, page, page_children, title, date_iso, meta_calls>>

----------------------------------------------------------------------------
(* extract_page_id *)

\* [0-9a-f]
IsLowerHex(c) == IsDigit(c) \/ c \in {"a", "b", "c", "d", "e", "f"}

\* [0-9a-f]{32} matches at position i
MatchHex32At(s, i) ==
    /\ i + 31 <= Len(s)
    /\ \A k \in 0..31 : IsLowerHex(s[i + k])

\* [0-9a-f]{8}-[0-9a-f]{4}-[0-9a-f]{4}-[0-9a-f]{4}-[0-9a-f]{12} matches at i
MatchDashedAt(s, i) ==
    /\ i + 35 <= Len(s)
    /\ \A k \in 0..35 : IF k \in {8, 13, 18, 23} THEN s[i + k] = "-"
                                                 ELSE IsLowerHex(s[i + k])

\* f"{raw[0:8]}-{raw[8:12]}-{raw[12:16]}-{raw[16:20]}-{raw[20:32]}"
Dashed(raw) ==
    SubSeq(raw, 1, 8) \o <<"-">> \o SubSeq(raw, 9, 12) \o <<"-">> \o SubSeq(raw, 13, 16)
      \o <<"-">> \o SubSeq(raw, 17, 20) \o <<"-">> \o SubSeq(raw, 21, 32)

\* extract_page_id(url_or_id): re.search takes the leftmost position where
\* an alternative matches, the 32-digit alternative first
extract_page_id(arg) ==
    LET s    == Strip(IF arg = NoneText THEN << >> ELSE arg)
        hits == {i \in 1..Len(s) : MatchHex32At(s, i) \/ MatchDashedAt(s, i)}
    IN  IF s = << >> \/ hits = {} THEN NoneText
        ELSE LET i == CHOOSE j \in hits : \A k \in hits : j <= k
             IN  IF MatchHex32At(s, i) THEN Dashed(SubSeq(s, i, i + 31))
                 ELSE SubSeq(s, i, i + 35)

(* Lines of the pages file. *)

\* 32-digit hexadecimal identifiers: lower case, upper case, mixed, digits only
Identifiers ==
    {<<"1", "a", "2", "b", "3", "c", "4", "d", "0", "0", "0", "0", "4", "0", "0", "0", "8", "0", "0", "0", "1", "2", "3", "4", "5", "6", "7", "8", "9", "a", "b", "c">>,
     <<"1", "A", "2", "B", "3", "C", "4", "D", "0", "0", "0", "0", "4", "0", "0", "0", "8", "0", "0", "0", "1", "2", "3", "4", "5", "6", "7", "8", "9", "A", "B", "C">>,
     <<"1", "2", "3", "4", "5", "6", "7", "8", "1", "2", "3", "4", "1", "2", "3", "4", "1", "2", "3", "4", "1", "2", "3", "4", "5", "6", "7", "8", "9", "0", "1", "2">>,
     <<"1", "A", "2", "b", "3", "C", "4", "d", "0", "0", "0", "0", "4", "0", "0", "0", "8", "0", "0", "0", "1", "2", "3", "4", "5", "6", "7", "8", "9", "0", "E", "f">>}
\* what a locator has before and after the identifier
LocatorPrefixes ==
    {<< >>, <<"h", "t", "t", "p", "s", ":", "/", "/", "w", "w", "w", ".", "n", "o", "t", "i", "o", "n", ".", "s", "o", "/", "T", "r", "i", "p", "-">>, <<"n", "o", "t", "i", "o", "n", ".", "s", "o", "/">>,
     <<" ">>, <<"a", "b">>}
LocatorSuffixes == {<< >>, <<"?", "v", "=", "2">>, <<"\n">>}
\* lines with no identifier
OtherLines ==
    {NoneText, << >>, <<" ", " ">>, <<"h", "e", "l", "l", "o">>,
     <<"1", "a", "2", "b", "3", "c", "4", "d", "0", "0", "0", "0", "4", "0", "0", "0", "8", "0", "0", "0", "1", "2", "3", "4", "5", "6", "7", "8", "9", "a", "b">>}

ExtractIdle ==
    /\ url_or_id = << >>
    /\ ext_id = << >>
    /\ ext_other = << >>
    /\ extracted = NoneText
    /\ ext_pc = "idle"

InitExtract ==
    /\ \/ \E id \in Identifiers, pre \in LocatorPrefixes, post \in LocatorSuffixes,
            dashed \in BOOLEAN :
             /\ ext_id = id
             /\ url_or_id = pre \o (IF dashed THEN Dashed(id) ELSE id) \o post
             /\ ext_other = pre \o (IF dashed THEN id ELSE Dashed(id)) \o post
       \/ /\ ext_id = << >>
          /\ url_or_id \in OtherLines
          /\ ext_other = url_or_id
    /\ extracted = NoneText
    /\ ext_pc = "call"

\* extract_page_id(url_or_id) returns
ExtractPageId ==
    /\ ext_pc = "call"
    /\ extracted' = extract_page_id(url_or_id)
    /\ ext_pc' = "returned"
    /\ UNCHANGED <<url_or_id, ext_id, ext_other>>

----------------------------------------------------------------------------
(* main, migrate_page and the functions that call the API *)

MaxPages     == 2
MaxSrcBlocks == 3

\* API operations, as the client names them
ListOp     == "blocks.children.list"
PageOp     == "pages.retrieve"
DatabaseOp == "databases.retrieve"
CreateOp   == "pages.create"
AppendOp   == "blocks.children.append"
SleepOp    == "time.sleep"

NoId == <<"none", 0>>
NoError == [kind |-> "none"]

\* The blocks of the source pages: a paragraph, and a paragraph whose payload
\* is null (convert_block_for_append raises on it).
SourcePalette ==
    {[type |-> "paragraph", paragraph |-> TextPayload("p")],
     [type |-> "paragraph", paragraph |-> NoneDict]}
SourceForests == UNION {ForestsOfSize(SourcePalette, n) : n \in 0..MaxSrcBlocks}

\* the children, in the source workspace, of the block at path (the page
\* itself is the empty path)
RECURSIVE KidsAt(_, _)
KidsAt(forest, path) ==
    IF path = << >> THEN forest
    ELSE KidsAt(Children(forest[Head(path)]), Tail(path))

\* a block as blocks.children.list returns it: no children attached, its id
\* (here its path) and has_children
RawBlock(path, node) ==
    [k \in DOMAIN node \ {"_children"} |-> node[k]]
      @@ [id |-> path, has_children |-> Children(node) # << >>]

\* One page of blocks.children.list(block_id, start_cursor): count results
\* from the cursor on, and the next cursor (0 is None).
ListResponse(forest, block_id, start_cursor, count) ==
    LET all   == KidsAt(forest, block_id)
        first == IF start_cursor = 0 THEN 1 ELSE start_cursor
    IN  [results |-> [i \in 1..count |->
                        RawBlock(Append(block_id, first + i - 1), all[first + i - 1])],
         next_cursor |-> IF first + count <= Len(all) THEN first + count ELSE 0]
\* the page sizes the API may answer with
ListCounts(forest, block_id, start_cursor) ==
    LET remaining == Len(KidsAt(forest, block_id))
                       - (IF start_cursor = 0 THEN 1 ELSE start_cursor) + 1
    IN  IF remaining <= 0 THEN {0} ELSE 1..remaining

\* a call of fetch_all_children: its locals and its position
FetchFrame(block_id) ==
    [block_id |-> block_id, children |-> << >>, start_cursor |-> 0,
     results |-> << >>, next_cursor |-> 0, at |-> "list"]

\* Mutant: the cursor of the response is ignored; one page per block.
RECURSIVE FetchAdvance_IgnoresCursor(_)
FetchAdvance_IgnoresCursor(stk) ==
    LET n   == Len(stk)
        top == stk[n]
    IN  IF top.results # << >>
        THEN LET r == Head(top.results)
             IN  IF r["has_children"]
                 THEN Append(stk, FetchFrame(r["id"]))
                 ELSE FetchAdvance_IgnoresCursor([stk EXCEPT ![n] =
                        [top EXCEPT !.children = Append(@, r), !.results = Tail(@)]])
        ELSE IF n = 1
        THEN <<[top EXCEPT !.at = "returned"]>>
        ELSE LET caller == stk[n - 1]
                 r_copy == ("_children" :> top.children) @@ Head(caller.results)
             IN  FetchAdvance_IgnoresCursor(Append(SubSeq(stk, 1, n - 2),
                        [caller EXCEPT !.children = Append(@, r_copy),
                                       !.results = Tail(@)]))

\* fetch_all_children from the response of a list call up to its next list
\* call, sleep or the return of the outermost call: the `for r in results`
\* loop, the recursion into a block with children, the cursor test, the
\* return into the caller's loop.
RECURSIVE FetchAdvance(_)
FetchAdvance(stk) ==
    LET n   == Len(stk)
        top == stk[n]
    IN  IF top.results # << >>
        THEN LET r == Head(top.results)
             IN  IF r["has_children"]
                 THEN Append(stk, FetchFrame(r["id"]))
                 ELSE FetchAdvance([stk EXCEPT ![n] =
                        [top EXCEPT !.children = Append(@, r), !.results = Tail(@)]])
        ELSE IF top.next_cursor # 0
        THEN [stk EXCEPT ![n] = [top EXCEPT !.start_cursor = top.next_cursor,
                                            !.at = "sleep"]]
        ELSE IF n = 1
        THEN <<[top EXCEPT !.at = "returned"]>>
        ELSE LET caller == stk[n - 1]
                 r_copy == ("_children" :> top.children) @@ Head(caller.results)
             IN  FetchAdvance(Append(SubSeq(stk, 1, n - 2),
                        [caller EXCEPT !.children = Append(@, r_copy),
                                       !.results = Tail(@)]))

\* count_all of the dry-run report
RECURSIVE count_all(_)
count_all(blocks) ==
    IF blocks = << >> THEN 0
    ELSE 1 + count_all(Children(Head(blocks))) + count_all(Tail(blocks))

\* block_copy: the block without "_children" and "object"
BlockCopy(b) == [k \in DOMAIN b \ {"_children", "object"} |-> b[k]]

\* a call of append_children_to_page: its parent and the blocks still to append
AppendFrame(page_block_id, converted_children) ==
    [page_block_id |-> page_block_id, todo |-> converted_children]

\* returns of append_children_to_page calls whose loop is exhausted
RECURSIVE AppendUnwind(_)
AppendUnwind(stk) ==
    IF stk # << >> /\ stk[Len(stk)].todo = << >>
    THEN AppendUnwind(SubSeq(stk, 1, Len(stk) - 1))
    ELSE stk

\* after the sleep: `if nested and appended_ids:` recurse with the last
\* reported identifier as the parent; the loop then goes on with the next block
AppendRecurse(stk, ids) ==
    LET n      == Len(stk)
        top    == stk[n]
        nested == Children(Head(top.todo))
        rest   == [stk EXCEPT ![n] = [top EXCEPT !.todo = Tail(@)]]
    IN  IF nested # << >> /\ ids # << >>
        THEN Append(rest, AppendFrame(ids[Len(ids)], nested))
        ELSE rest

\* Mutant: Archived is not checked.
required_props_NoArchived == <<"Title", "Date">>

required_props == <<"Title", "Date", "Archived">>

\* the schemas databases.retrieve may report
DatabaseSchemas == SUBSET {"Title", "Date", "Archived", "Tags"}

missing_props(props) == SelectSeq(required_props, LAMBDA prop : prop \notin props)

\* Mutant: create_database_page has no dry-run branch.
CreateSimulated_Never == FALSE

\* `if DRY_RUN:` of create_database_page
CreateSimulated == DRY_RUN

\* `if DRY_RUN:` of append_children_to_page
AppendSimulated == DRY_RUN

\* the hex digits uuid4 may give the placeholder identifier
DryRunHex == {"0a1b2c3d", "ffffffff"}

PipelineIdle ==
    /\ DRY_RUN = FALSE
    /\ client = FALSE
    /\ page_ids = << >>
    /\ idx = 0
    /\ succeeded = 0
    /\ failed = 0
    /\ pc = "idle"
    /\ ok = FALSE
    /\ src_tree = << >>
    /\ fetch_stack = << >>
    /\ src_children = << >>
    /\ db_props = {}
    /\ new_page_id = NoId
    /\ converted = << >>
    /\ append_stack = << >>
    /\ appended_ids = << >>
    /\ dest = << >>
    /\ issued = {}
    /\ calls = << >>
    /\ error = NoError
    /\ last_ops = <<"start", "start">>
    /\ attempted = << >>
    /\ outcomes = << >>

\* main up to the loop: the flags, the client, the identifiers read.  A live
\* run has a client (main exits otherwise); a dry run may have none.
InitMain ==
    /\ DRY_RUN \in BOOLEAN
    /\ client \in BOOLEAN
    /\ DRY_RUN \/ client
    /\ \E n \in 0..MaxPages : page_ids = [i \in 1..n |-> i]
    /\ idx = 0
    /\ succeeded = 0
    /\ failed = 0
    /\ pc = "main"
    /\ ok = FALSE
    /\ src_tree = << >>
    /\ fetch_stack = << >>
    /\ src_children = << >>
    /\ db_props = {}
    /\ new_page_id = NoId
    /\ converted = << >>
    /\ append_stack = << >>
    /\ appended_ids = << >>
    /\ dest = << >>
    /\ issued = {}
    /\ calls = << >>
    /\ error = NoError
    /\ last_ops = <<"start", "start">>
    /\ attempted = << >>
    /\ outcomes = << >>

\* an API call or a sleep is issued
Issue(op) == last_ops' = <<last_ops[2], op>>
\* the function the run is in
Caller ==
    CASE pc = "fetch" -> "fetch_all_children"
      [] pc \in {"metadata", "metadata_list"} -> "guess_title_and_date_from_page"
      [] pc \in {"create", "create_page"} -> "create_database_page"
      [] pc \in {"append", "append_sleep"} -> "append_children_to_page"
      [] OTHER -> "migrate_page"
Call(op) ==
    /\ Issue(op)
    /\ issued' = issued \cup {op}
    /\ calls' = Append(calls, [by |-> Caller, op |-> op])
\* fetch_all_children issues a list call: its arguments, whether it answered
\* and the cursor of the answer go on record with it
CallList(block_id, start_cursor, answered, next_cursor) ==
    /\ Issue(ListOp)
    /\ issued' = issued \cup {ListOp}
    /\ calls' = Append(calls, [by |-> Caller, op |-> ListOp, block_id |-> block_id,
                                start_cursor |-> start_cursor, answered |-> answered,
                                next_cursor |-> next_cursor])

\* an exception reaches the except clause of migrate_page, which returns False
Raise(e) ==
    /\ error' = e
    /\ ok' = FALSE
    /\ outcomes' = Append(outcomes, FALSE)
    /\ pc' = "job_end"

\* migrate_page returns True
ReturnTrue ==
    /\ ok' = TRUE
    /\ outcomes' = Append(outcomes, TRUE)
    /\ pc' = "job_end"

jobVars == <<src_tree, fetch_stack, src_children, db_props, new_page_id, converted,
             append_stack, appended_ids, dest>>
mainVars == <<DRY_RUN, client, page_ids, idx, succeeded, failed, attempted>>

\* main: the loop takes the next identifier and calls migrate_page, which
\* starts fetching (or, without a client, skips to the simulated title).
\* The content of the source page is whatever the workspace holds.
MigratePage ==
    /\ pc = "main"
    /\ idx < Len(page_ids)
    /\ attempted' = Append(attempted, page_ids[idx + 1])
    /\ src_tree' \in SourceForests
    /\ fetch_stack' = IF client THEN <<FetchFrame(<< >>)>> ELSE << >>
    /\ src_children' = << >>
    /\ db_props' = {}
    /\ new_page_id' = NoId
    /\ converted' = << >>
    /\ append_stack' = << >>
    /\ appended_ids' = << >>
    /\ dest' = << >>
    /\ issued' = {}
    /\ calls' = << >>
    /\ error' = NoError
    /\ pc' = IF client THEN "fetch" ELSE "create"
    /\ UNCHANGED <<DRY_RUN, client, page_ids, idx, succeeded, failed, ok, last_ops,
                   outcomes>>

\* fetch_all_children: client.blocks.children.list answers with one page
FetchList ==
    /\ pc = "fetch"
    /\ fetch_stack[Len(fetch_stack)].at = "list"
    /\ LET n   == Len(fetch_stack)
           top == fetch_stack[n]
       IN  \E count \in ListCounts(src_tree, top.block_id, top.start_cursor) :
              LET resp == ListResponse(src_tree, top.block_id, top.start_cursor, count)
                  stk  == FetchAdvance([fetch_stack EXCEPT ![n] =
                             [top EXCEPT !.results = resp.results,
                                         !.next_cursor = resp.next_cursor]])
              IN  /\ CallList(top.block_id, top.start_cursor, TRUE, resp.next_cursor)
                  /\ IF stk[1].at = "returned"
                     THEN /\ src_children' = stk[1].children
                          /\ fetch_stack' = << >>
                          /\ pc' = "fetch_sleep"
                     ELSE /\ fetch_stack' = stk
                          /\ UNCHANGED <<src_children, pc>>
    /\ UNCHANGED <<mainVars, ok, src_tree, db_props, new_page_id, converted,
                   append_stack, appended_ids, dest, error, outcomes>>

\* fetch_all_children: the list call raises, at any depth; the error is
\* re-raised through every caller
FetchListRaises ==
    /\ pc = "fetch"
    /\ fetch_stack[Len(fetch_stack)].at = "list"
    /\ LET top == fetch_stack[Len(fetch_stack)]
       IN  CallList(top.block_id, top.start_cursor, FALSE, 0)
    /\ Raise([kind |-> "api", op |-> ListOp])
    /\ fetch_stack' = << >>
    /\ UNCHANGED <<mainVars, src_tree, src_children, db_props, new_page_id, converted,
                   append_stack, appended_ids, dest>>

\* fetch_all_children: time.sleep(RATE_SLEEP) before the next page
FetchSleep ==
    /\ pc = "fetch"
    /\ fetch_stack[Len(fetch_stack)].at = "sleep"
    /\ Issue(SleepOp)
    /\ fetch_stack' = [fetch_stack EXCEPT ![Len(fetch_stack)].at = "list"]
    /\ UNCHANGED <<mainVars, ok, pc, src_tree, src_children, db_props, new_page_id,
                   converted, append_stack, appended_ids, dest, issued, calls, error, outcomes>>

\* Mutant: the metadata lookup is skipped.
SleepAfterFetch_SkipsMetadata ==
    /\ pc = "fetch_sleep"
    /\ Issue(SleepOp)
    /\ pc' = "create"
    /\ UNCHANGED <<mainVars, ok, jobVars, issued, calls, error, outcomes>>

\* migrate_page: time.sleep(RATE_SLEEP) after the fetch
SleepAfterFetch ==
    /\ pc = "fetch_sleep"
    /\ Issue(SleepOp)
    /\ pc' = "metadata"
    /\ UNCHANGED <<mainVars, ok, jobVars, issued, calls, error, outcomes>>

\* guess_title_and_date_from_page: client.pages.retrieve answers; the page
\* has a title attribute with text, or it has not and the children are listed
RetrievePage ==
    /\ pc = "metadata"
    /\ Call(PageOp)
    /\ \E has_title \in BOOLEAN : pc' = IF has_title THEN "create" ELSE "metadata_list"
    /\ UNCHANGED <<mainVars, ok, jobVars, error, outcomes>>

RetrievePageRaises ==
    /\ pc = "metadata"
    /\ Call(PageOp)
    /\ Raise([kind |-> "api", op |-> PageOp])
    /\ UNCHANGED <<mainVars, jobVars>>

\* guess_title_and_date_from_page: client.blocks.children.list(page_size=50)
ListForTitle ==
    /\ pc = "metadata_list"
    /\ Call(ListOp)
    /\ pc' = "create"
    /\ UNCHANGED <<mainVars, ok, jobVars, error, outcomes>>

ListForTitleRaises ==
    /\ pc = "metadata_list"
    /\ Call(ListOp)
    /\ Raise([kind |-> "api", op |-> ListOp])
    /\ UNCHANGED <<mainVars, jobVars>>

\* create_database_page in a dry run: a placeholder identifier, no call
CreateDryRun ==
    /\ pc = "create"
    /\ CreateSimulated
    /\ \E hex \in DryRunHex : new_page_id' = <<"dryrun-" \o hex, 0>>
    /\ pc' = "convert"
    /\ UNCHANGED <<mainVars, ok, src_tree, fetch_stack, src_children, db_props,
                   converted, append_stack, appended_ids, dest, issued, calls, error,
                   last_ops, outcomes>>

\* create_database_page: client.databases.retrieve answers; the required
\* properties are checked, and a missing one raises RuntimeError
RetrieveDatabase ==
    /\ pc = "create"
    /\ ~CreateSimulated
    /\ Call(DatabaseOp)
    /\ \E props \in DatabaseSchemas :
          /\ db_props' = props
          /\ IF missing_props(props) # << >>
             THEN Raise([kind |-> "RuntimeError",
                         missing |-> missing_props(props), found |-> props])
             ELSE /\ pc' = "create_page"
                  /\ UNCHANGED <<ok, error, outcomes>>
    /\ UNCHANGED <<mainVars, src_tree, fetch_stack, src_children, new_page_id,
                   converted, append_stack, appended_ids, dest>>

RetrieveDatabaseRaises ==
    /\ pc = "create"
    /\ ~CreateSimulated
    /\ Call(DatabaseOp)
    /\ Raise([kind |-> "api", op |-> DatabaseOp])
    /\ UNCHANGED <<mainVars, jobVars>>

\* create_database_page: client.pages.create answers with the new identifier
CreatePage ==
    /\ pc = "create_page"
    /\ Call(CreateOp)
    /\ new_page_id' = <<"page", idx + 1>>
    /\ pc' = "convert"
    /\ UNCHANGED <<mainVars, ok, src_tree, fetch_stack, src_children, db_props,
                   converted, append_stack, appended_ids, dest, error, outcomes>>

CreatePageRaises ==
    /\ pc = "create_page"
    /\ Call(CreateOp)
    /\ Raise([kind |-> "api", op |-> CreateOp])
    /\ UNCHANGED <<mainVars, jobVars>>

\* migrate_page: the fetched blocks are converted; append_children_to_page is
\* entered.  In a dry run it counts the blocks and returns; with nothing to
\* append its loop ends at once.
ConvertChildren ==
    /\ pc = "convert"
    /\ \A i \in 1..Len(src_children) : ~ConvertRaises(src_children[i])
    /\ converted' = [i \in 1..Len(src_children) |->
                        convert_block_for_append(src_children[i])]
    /\ IF AppendSimulated \/ src_children = << >>
       THEN /\ ReturnTrue
            /\ UNCHANGED append_stack
       ELSE /\ append_stack' = <<AppendFrame(new_page_id, converted')>>
            /\ pc' = "append"
            /\ UNCHANGED <<ok, outcomes>>
    /\ UNCHANGED <<mainVars, src_tree, fetch_stack, src_children, db_props, new_page_id,
                   appended_ids, dest, issued, calls, error, last_ops>>

\* migrate_page: convert_block_for_append raises
ConvertChildrenRaises ==
    /\ pc = "convert"
    /\ \E i \in 1..Len(src_children) : ConvertRaises(src_children[i])
    /\ Raise([kind |-> "convert"])
    /\ UNCHANGED <<mainVars, jobVars, issued, calls, last_ops>>

\* append_children_to_page: client.blocks.children.append of one block; the
\* destination assigns it an identifier, which the response reports or not
AppendBlock ==
    /\ pc = "append"
    /\ Call(AppendOp)
    /\ LET top    == append_stack[Len(append_stack)]
           new_id == <<"block", Len(dest) + 1>>
       IN  /\ dest' = Append(dest, [id |-> new_id, parent |-> top.page_block_id,
                                    block |-> BlockCopy(Head(top.todo))])
           /\ appended_ids' \in {<<new_id>>, << >>}
    /\ pc' = "append_sleep"
    /\ UNCHANGED <<mainVars, ok, src_tree, fetch_stack, src_children, db_props,
                   new_page_id, converted, append_stack, error, outcomes>>

AppendBlockRaises ==
    /\ pc = "append"
    /\ Call(AppendOp)
    /\ Raise([kind |-> "api", op |-> AppendOp])
    /\ UNCHANGED <<mainVars, jobVars>>

\* append_children_to_page: time.sleep(RATE_SLEEP), then the recursion into
\* the block's children or the next block
AppendSleep ==
    /\ pc = "append_sleep"
    /\ Issue(SleepOp)
    /\ LET stk == AppendUnwind(AppendRecurse(append_stack, appended_ids))
       IN  /\ append_stack' = stk
           /\ IF stk = << >>
              THEN ReturnTrue
              ELSE /\ pc' = "append"
                   /\ UNCHANGED <<ok, outcomes>>
    /\ appended_ids' = << >>
    /\ UNCHANGED <<mainVars, src_tree, fetch_stack, src_children, db_props, new_page_id,
                   converted, dest, issued, calls, error>>

\* Mutant: main leaves the loop at the first failed page.
CountAndSleep_BreakOnFailure ==
    /\ pc = "job_end"
    /\ succeeded' = IF ok THEN succeeded + 1 ELSE succeeded
    /\ failed' = IF ok THEN failed ELSE failed + 1
    /\ idx' = idx + 1
    /\ Issue(SleepOp)
    /\ pc' = IF ok THEN "main" ELSE "done"
    /\ UNCHANGED <<DRY_RUN, client, page_ids, attempted, ok, jobVars, issued, calls, error,
                   outcomes>>

\* main: the page is counted as succeeded or failed; time.sleep(RATE_SLEEP)
CountAndSleep ==
    /\ pc = "job_end"
    /\ succeeded' = IF ok THEN succeeded + 1 ELSE succeeded
    /\ failed' = IF ok THEN failed ELSE failed + 1
    /\ idx' = idx + 1
    /\ Issue(SleepOp)
    /\ pc' = "main"
    /\ UNCHANGED <<DRY_RUN, client, page_ids, attempted, ok, jobVars, issued, calls, error,
                   outcomes>>

\* main: the loop is exhausted; "Migration complete"
MigrationComplete ==
    /\ pc = "main"
    /\ idx = Len(page_ids)
    /\ pc' = "done"
    /\ UNCHANGED <<mainVars, ok, jobVars, issued, calls, error, last_ops, outcomes>>

----------------------------------------------------------------------------
(* children_page_ids_from_parent (notion_list_pages.py) *)

\* how many children the blocks of a workspace list, all together
MaxWalkEdges == 3

\* the blocks of the workspace; "r" is the parent the walk starts from
WalkIds == {"r", "a", "b"}
WalkTypes == {"child_page", "paragraph"}

\* what each block lists as its children
Workspaces ==
    {kids \in [WalkIds -> SeqsUpTo(WalkIds, MaxWalkEdges)] :
        Len(kids["r"]) + Len(kids["a"]) + Len(kids["b"]) <= MaxWalkEdges}

\* a block as blocks.children.list returns it
WalkBlock(types, kids, id) ==
    [id |-> id, type |-> types[id], has_children |-> kids[id] # << >>]

\* One page of blocks.children.list(block_id, start_cursor, page_size=100)
WalkListResponse(types, kids, id, cursor, count) ==
    LET all   == kids[id]
        first == IF cursor = 0 THEN 1 ELSE cursor
    IN  [results |-> [i \in 1..count |-> WalkBlock(types, kids, all[first + i - 1])],
         next_cursor |-> IF first + count <= Len(all) THEN first + count ELSE 0]
WalkListCounts(kids, id, cursor) ==
    LET remaining == Len(kids[id]) - (IF cursor = 0 THEN 1 ELSE cursor) + 1
    IN  IF remaining <= 0 THEN {0} ELSE 1..remaining

\* Mutant: the block is not remembered as visited.
MarkVisited_Forgets(visited, blk_id) == visited

\* visited_blocks.add(blk_id)
MarkVisited(visited, blk_id) == visited \cup {blk_id}

\* `for blk in results`: a block without id or already visited is skipped;
\* the others are marked visited, collected if child_page, pushed if the
\* walk is recursive and they have children
RECURSIVE WalkResults(_, _, _)
WalkResults(results, rec, st) ==
    IF results = << >> THEN st
    ELSE LET blk    == Head(results)
             blk_id == Get(blk, "id", NoneStr)
         IN  IF ~TruthyStr(blk_id) \/ blk_id \in st.visited_blocks
             THEN WalkResults(Tail(results), rec, st)
             ELSE WalkResults(Tail(results), rec,
                    [visited_blocks |-> MarkVisited(st.visited_blocks, blk_id),
                     collected |-> IF Get(blk, "type", NoneStr) = "child_page"
                                   THEN Append(st.collected, blk_id)
                                   ELSE st.collected,
                     stack |-> IF rec /\ Get(blk, "has_children", FALSE)
                               THEN Append(st.stack, blk_id)
                               ELSE st.stack])

\* "dedupe preserve order"
RECURSIVE Dedupe(_, _)
Dedupe(pids, seen) ==
    IF pids = << >> THEN << >>
    ELSE IF Head(pids) \in seen THEN Dedupe(Tail(pids), seen)
    ELSE <<Head(pids)>> \o Dedupe(Tail(pids), seen \cup {Head(pids)})

WalkIdle ==
    /\ walk_types = [id \in WalkIds |-> "paragraph"]
    /\ walk_kids = [id \in WalkIds |-> << >>]
    /\ parent_id = "r"
    /\ recursive = FALSE
    /\ collected = << >>
    /\ stack = << >>
    /\ visited_blocks = {}
    /\ walk_block_id = NoneStr
    /\ walk_start_cursor = 0
    /\ walk_pc = "idle"
    /\ walk_requests = << >>
    /\ out = << >>

\* children_page_ids_from_parent(client, parent_id, recursive) is entered.
\* Any block may list any block, itself, its parent or the root included.
InitWalk ==
    /\ walk_kids \in Workspaces
    /\ walk_types \in [WalkIds -> WalkTypes]
    /\ walk_types["r"] = "child_page"
    /\ parent_id = "r"
    /\ recursive \in BOOLEAN
    /\ collected = << >>
    /\ stack = <<parent_id>>
    /\ visited_blocks = {}
    /\ walk_block_id = NoneStr
    /\ walk_start_cursor = 0
    /\ walk_pc = "while"
    /\ walk_requests = << >>
    /\ out = << >>

\* `while stack: block_id = stack.pop()`
WalkPop ==
    /\ walk_pc = "while"
    /\ stack # << >>
    /\ walk_block_id' = stack[Len(stack)]
    /\ stack' = SubSeq(stack, 1, Len(stack) - 1)
    /\ walk_start_cursor' = 0
    /\ walk_pc' = "list"
    /\ UNCHANGED <<walk_types, walk_kids, parent_id, recursive, collected,
                   visited_blocks, walk_requests, out>>

\* client.blocks.children.list answers with one page; its results are
\* processed; the cursor decides between another page and the next block
WalkList ==
    /\ walk_pc = "list"
    /\ walk_requests' = Append(walk_requests, [block_id |-> walk_block_id,
                                               start_cursor |-> walk_start_cursor])
    /\ \E count \in WalkListCounts(walk_kids, walk_block_id, walk_start_cursor) :
          LET resp == WalkListResponse(walk_types, walk_kids, walk_block_id,
                                       walk_start_cursor, count)
              st   == WalkResults(resp.results, recursive,
                                  [visited_blocks |-> visited_blocks,
                                   collected |-> collected, stack |-> stack])
          IN  /\ visited_blocks' = st.visited_blocks
              /\ collected' = st.collected
              /\ stack' = st.stack
              /\ IF resp.next_cursor = 0
                 THEN /\ walk_pc' = "while"
                      /\ UNCHANGED walk_start_cursor
                 ELSE /\ walk_start_cursor' = resp.next_cursor
                      /\ walk_pc' = "sleep"
    /\ UNCHANGED <<walk_types, walk_kids, parent_id, recursive, walk_block_id, out>>

\* client.blocks.children.list raises; nothing catches it
WalkListRaises ==
    /\ walk_pc = "list"
    /\ walk_requests' = Append(walk_requests, [block_id |-> walk_block_id,
                                               start_cursor |-> walk_start_cursor])
    /\ walk_pc' = "raised"
    /\ UNCHANGED <<walk_types, walk_kids, parent_id, recursive, collected, stack,
                   visited_blocks, walk_block_id, walk_start_cursor, out>>

\* time.sleep(rate_sleep) before the next page
WalkSleep ==
    /\ walk_pc = "sleep"
    /\ walk_pc' = "list"
    /\ UNCHANGED <<walk_types, walk_kids, parent_id, recursive, collected, stack,
                   visited_blocks, walk_block_id, walk_start_cursor, walk_requests, out>>

\* the stack is empty: the collected identifiers are deduplicated and returned
WalkReturn ==
    /\ walk_pc = "while"
    /\ stack = << >>
    /\ out' = Dedupe(collected, {})
    /\ walk_pc' = "returned"
    /\ UNCHANGED <<walk_types, walk_kids, parent_id, recursive, collected, stack,
                   visited_blocks, walk_block_id, walk_start_cursor, walk_requests>>

----------------------------------------------------------------------------
(* Specifications *)

\* the migration run: main and everything it calls
Init ==
    InitMain /\ RichTextIdle /\ ConvertIdle /\ MetaIdle /\ ExtractIdle /\ WalkIdle
Next ==
    \/ MigratePage /\ UNCHANGED <<rtVars, convVars, metaVars, extVars, walkVars>>
    \/ FetchList /\ UNCHANGED <<rtVars, convVars, metaVars, extVars, walkVars>>
    \/ FetchListRaises /\ UNCHANGED <<rtVars, convVars, metaVars, extVars, walkVars>>
    \/ FetchSleep /\ UNCHANGED <<rtVars, convVars, metaVars, extVars, walkVars>>
    \/ SleepAfterFetch /\ UNCHANGED <<rtVars, convVars, metaVars, extVars, walkVars>>
    \/ RetrievePage /\ UNCHANGED <<rtVars, convVars, metaVars, extVars, walkVars>>
    \/ RetrievePageRaises /\ UNCHANGED <<rtVars, convVars, metaVars, extVars, walkVars>>
    \/ ListForTitle /\ UNCHANGED <<rtVars, convVars, metaVars, extVars, walkVars>>
    \/ ListForTitleRaises /\ UNCHANGED <<rtVars, convVars, metaVars, extVars, walkVars>>
    \/ CreateDryRun /\ UNCHANGED <<rtVars, convVars, metaVars, extVars, walkVars>>
    \/ RetrieveDatabase /\ UNCHANGED <<rtVars, convVars, metaVars, extVars, walkVars>>
    \/ RetrieveDatabaseRaises /\ UNCHANGED <<rtVars, convVars, metaVars, extVars, walkVars>>
    \/ CreatePage /\ UNCHANGED <<rtVars, convVars, metaVars, extVars, walkVars>>
    \/ CreatePageRaises /\ UNCHANGED <<rtVars, convVars, metaVars, extVars, walkVars>>
    \/ ConvertChildren /\ UNCHANGED <<rtVars, convVars, metaVars, extVars, walkVars>>
    \/ ConvertChildrenRaises /\ UNCHANGED <<rtVars, convVars, metaVars, extVars, walkVars>>
    \/ AppendBlock /\ UNCHANGED <<rtVars, convVars, metaVars, extVars, walkVars>>
    \/ AppendBlockRaises /\ UNCHANGED <<rtVars, convVars, metaVars, extVars, walkVars>>
    \/ AppendSleep /\ UNCHANGED <<rtVars, convVars, metaVars, extVars, walkVars>>
    \/ CountAndSleep /\ UNCHANGED <<rtVars, convVars, metaVars, extVars, walkVars>>
    \/ MigrationComplete /\ UNCHANGED <<rtVars, convVars, metaVars, extVars, walkVars>>
Spec == Init /\ [][Next]_vars

\* convert_rich_text_item on every source run, then on its own output
InitSpecRichText ==
    InitRichText /\ ConvertIdle /\ MetaIdle /\ PipelineIdle /\ ExtractIdle /\ WalkIdle
NextRichText ==
    \/ ConvertRichTextItem /\ UNCHANGED <<convVars, metaVars, pipeVars, extVars, walkVars>>
    \/ ReconvertRichTextItem /\ UNCHANGED <<convVars, metaVars, pipeVars, extVars, walkVars>>
SpecRichText == InitSpecRichText /\ [][NextRichText]_vars

\* convert_block_for_append on every source block
InitSpecConvert ==
    InitConvert /\ RichTextIdle /\ MetaIdle /\ PipelineIdle /\ ExtractIdle /\ WalkIdle
NextConvert ==
    \/ ConvertBlockForAppend /\ UNCHANGED <<rtVars, metaVars, pipeVars, extVars, walkVars>>
    \/ ConvertBlockForAppendRaises /\ UNCHANGED <<rtVars, metaVars, pipeVars, extVars, walkVars>>
SpecConvert == InitSpecConvert /\ [][NextConvert]_vars

\* guess_title_and_date_from_page on every page
InitSpecMeta ==
    InitMeta /\ RichTextIdle /\ ConvertIdle /\ PipelineIdle /\ ExtractIdle /\ WalkIdle
NextMeta ==
    \/ GuessTitleAndDate /\ UNCHANGED <<rtVars, convVars, pipeVars, extVars, walkVars>>
    \/ GuessTitleRetrieveRaises /\ UNCHANGED <<rtVars, convVars, pipeVars, extVars, walkVars>>
    \/ GuessTitleListRaises /\ UNCHANGED <<rtVars, convVars, pipeVars, extVars, walkVars>>
    \/ SubstituteToday /\ UNCHANGED <<rtVars, convVars, pipeVars, extVars, walkVars>>
SpecMeta == InitSpecMeta /\ [][NextMeta]_vars

\* extract_page_id on every line
InitSpecExtract ==
    InitExtract /\ RichTextIdle /\ ConvertIdle /\ MetaIdle /\ PipelineIdle /\ WalkIdle
NextExtract ==
    \/ ExtractPageId /\ UNCHANGED <<rtVars, convVars, metaVars, pipeVars, walkVars>>
SpecExtract == InitSpecExtract /\ [][NextExtract]_vars

\* children_page_ids_from_parent on every workspace; the function runs on:
\* a list call answers or raises, a sleep ends
InitSpecWalk ==
    InitWalk /\ RichTextIdle /\ ConvertIdle /\ MetaIdle /\ PipelineIdle /\ ExtractIdle
NextWalk ==
    \/ WalkPop /\ UNCHANGED <<rtVars, convVars, metaVars, pipeVars, extVars>>
    \/ WalkList /\ UNCHANGED <<rtVars, convVars, metaVars, pipeVars, extVars>>
    \/ WalkListRaises /\ UNCHANGED <<rtVars, convVars, metaVars, pipeVars, extVars>>
    \/ WalkSleep /\ UNCHANGED <<rtVars, convVars, metaVars, pipeVars, extVars>>
    \/ WalkReturn /\ UNCHANGED <<rtVars, convVars, metaVars, pipeVars, extVars>>
SpecWalk == InitSpecWalk /\ [][NextWalk]_vars /\ WF_vars(NextWalk)

----------------------------------------------------------------------------
(* Claims about the run: main, migrate_page, the Fetcher, the Page Creator,
   the Block Inserter *)

\* C1 (batch failure isolation): main attempts the identifiers once each, in
\* list order, with no retry: the identifiers attempted so far are always a
\* prefix of the list, one longer than the pages counted while a page is in
\* progress.  The tallies count the pages that returned True and the pages
\* that raised, and add up to the pages counted; when main completes, every
\* identifier of the list has been attempted, whatever failed before it, and
\* succeeded + failed = N.
C1_BatchFailureIsolation ==
    /\ Len(attempted) <= Len(page_ids)
    /\ attempted = SubSeq(page_ids, 1, Len(attempted))
    /\ Len(attempted) = IF pc \in {"main", "done"} THEN idx ELSE idx + 1
    /\ Len(outcomes) = IF pc = "job_end" THEN idx + 1 ELSE idx
    /\ succeeded = Cardinality({i \in 1..idx : outcomes[i]})
    /\ failed = Cardinality({i \in 1..idx : ~outcomes[i]})
    /\ succeeded + failed = idx
    /\ pc = "done" => /\ attempted = page_ids
                      /\ succeeded + failed = Len(page_ids)

\* main has completed a list of two pages: the first raised, the second
\* was attempted all the same and succeeded
C1_Witness ==
    /\ pc = "done"
    /\ Len(page_ids) = 2
    /\ outcomes = <<FALSE, TRUE>>
    /\ failed = 1
    /\ succeeded = 1

C2_WriteOps == {DatabaseOp, CreateOp, AppendOp}
C2_Placeholders == {<<"dryrun-" \o hex, 0>> : hex \in DryRunHex}

\* C2 (dry run writes nothing): with the dry-run flag set, no
\* databases.retrieve, pages.create or blocks.children.append call is ever
\* issued and nothing reaches the destination; the identifier
\* create_database_page returns is a local placeholder, and
\* append_children_to_page never gets to its append loop.
C2_DryRunIssuesNoWrite ==
    DRY_RUN =>
        /\ issued \cap C2_WriteOps = {}
        /\ dest = << >>
        /\ append_stack = << >>
        /\ pc \notin {"create_page", "append", "append_sleep"}
        /\ new_page_id # NoId => new_page_id \in C2_Placeholders
        /\ pc \in {"convert"} => new_page_id \in C2_Placeholders
        /\ (pc = "job_end" /\ ok) => new_page_id \in C2_Placeholders

\* a dry run with a client has fetched a page of three blocks, one nested,
\* and the page has returned True
C2_Witness ==
    /\ DRY_RUN
    /\ client
    /\ pc = "job_end"
    /\ ok
    /\ ListOp \in issued
    /\ count_all(converted) = 3
    /\ \E i \in 1..Len(converted) : Children(converted[i]) # << >>

\* the blocks appended under parent, in the order they were appended
C3_AppendedUnder(parent) == SelectSeq(dest, LAMBDA d : d.parent = parent)

\* the blocks appended under parent are the counterparts of blocks, in order,
\* and so on under the identifier of each
RECURSIVE C3_Mirrors(_, _)
C3_Mirrors(parent, blocks) ==
    LET under == C3_AppendedUnder(parent)
    IN  /\ Len(under) = Len(blocks)
        /\ \A i \in 1..Len(blocks) :
              /\ under[i].block = BlockCopy(blocks[i])
              /\ C3_Mirrors(under[i].id, Children(blocks[i]))

\* C3 (destination mirrors source): when a live page has returned True, every
\* block of the converted tree has one counterpart at the destination, under
\* the identifier given to its parent's counterpart, siblings in source order,
\* and nothing else was appended.
C3_DestinationMirrorsSource ==
    (~DRY_RUN /\ pc = "job_end" /\ ok) =>
        /\ C3_Mirrors(new_page_id, converted)
        /\ Len(dest) = count_all(converted)

C6_Required == {"Title", "Date", "Archived"}
C6_Elements(seq) == {seq[i] : i \in 1..Len(seq)}

\* C6 (schema validation precedes any write): when the database retrieved in
\* a live run lacks one of Title, Date, Archived, the page fails with a
\* RuntimeError that names the missing ones, each once and no other, and no
\* pages.create and no blocks.children.append is issued for the page;
\* conversely a page for which either call was issued had all three.
C6_SchemaValidationPrecedesWrite ==
    /\ error.kind = "RuntimeError" =>
          /\ ~DRY_RUN
          /\ C6_Elements(error.missing) = C6_Required \ db_props
          /\ Len(error.missing) = Cardinality(C6_Required \ db_props)
          /\ error.missing # << >>
          /\ pc \in {"job_end", "main", "done"}
          /\ pc = "job_end" => ~ok
          /\ CreateOp \notin issued
          /\ AppendOp \notin issued
          /\ new_page_id = NoId
          /\ dest = << >>
    /\ (DatabaseOp \in issued /\ error # [kind |-> "api", op |-> DatabaseOp]
          /\ ~(C6_Required \subseteq db_props)) => error.kind = "RuntimeError"
    /\ (CreateOp \in issued \/ AppendOp \in issued) => C6_Required \subseteq db_props

\* scenario 5: the database has Title and Archived but no Date
C6_Witness ==
    /\ ~DRY_RUN
    /\ pc = "job_end"
    /\ ~ok
    /\ db_props = {"Title", "Archived"}
    /\ error = [kind |-> "RuntimeError", missing |-> <<"Date">>,
                found |-> {"Title", "Archived"}]

C7_IsCall(op) == op \in {ListOp, PageOp, DatabaseOp, CreateOp, AppendOp}

\* C7 (global pacing): no API call is issued straight after another API call;
\* a sleep was executed between the two.
C7_SleepBetweenCalls == ~(C7_IsCall(last_ops[1]) /\ C7_IsCall(last_ops[2]))

----------------------------------------------------------------------------
(* Claims about the Block Converter and the rich-text run conversion *)

\* C4 (as claimed): convert_block_for_append has no failure modes; on every
\* source block, however malformed, it returns a converted block and never
\* raises.
C4_ConverterNeverRaises == conv_pc # "raised"

RECURSIVE Depth(_)
Depth(b) ==
    IF Children(b) = << >> THEN 1
    ELSE 1 + (CHOOSE d \in {Depth(Children(b)[i]) : i \in 1..Len(Children(b))} :
                \A i \in 1..Len(Children(b)) : Depth(Children(b)[i]) <= d)

\* same number of children at every node, compared position by position
RECURSIVE SameShape(_, _)
SameShape(s, c) ==
    /\ Len(Children(s)) = Len(Children(c))
    /\ \A i \in 1..Len(Children(s)) : SameShape(Children(s)[i], Children(c)[i])

\* A block as the API contract produces it: typed, every payload present is a
\* dict, a supported non-media type has its payload, and so for every
\* fetched child.
RECURSIVE WellFormedTree(_)
WellFormedTree(b) ==
    /\ "type" \in DOMAIN b
    /\ \A k \in DOMAIN b \ {"type", "_children"} :
          /\ b[k] # NoneDict
          /\ \A sub \in DOMAIN b[k] \cap {"external", "file"} : b[k][sub] # NoneDict
    /\ b["type"] \in RichTextTypes \cup {"embed"} => b["type"] \in DOMAIN b
    /\ \A i \in 1..Len(Children(b)) : WellFormedTree(Children(b)[i])

\* C5: on every well-formed source tree the converter returns, and the
\* converted tree has the depth of the source tree and, at every node, as
\* many children as the source node, the i-th child being the conversion of
\* the i-th source child.
C5_ShapePreserved ==
    (conv_pc # "call" /\ WellFormedTree(block)) =>
        /\ conv_pc = "returned"
        /\ Depth(base) = Depth(block)
        /\ SameShape(block, base)
        /\ \A i \in 1..Len(Children(block)) :
              Children(base)[i] = convert_block_for_append(Children(block)[i])

\* C5 witness: a media block downgraded to a placeholder paragraph keeps its
\* subtree, which is two levels deep.
C5_Witness ==
    /\ conv_pc = "returned"
    /\ WellFormedTree(block)
    /\ block["type"] = "image"
    /\ base["type"] = "paragraph"
    /\ Depth(block) = 3
    /\ Depth(base) = 3

C5_WitnessFanOut ==
    /\ conv_pc = "returned"
    /\ Len(Children(block)) = 2
    /\ Children(block)[1] # Children(block)[2]

\* C8 (as claimed): convert_rich_text_item is idempotent on its own output.
C8_Idempotent == rt_pc = "twice" => new2 = new

\* C8 (amended): a second conversion keeps the type and the annotations of the
\* converted run and nothing else: its content is empty and it has no link,
\* because a converted run has neither plain_text nor href.  The two
\* conversions agree exactly when the first had empty content and no link.
C8_ReconversionKeepsOnlyAnnotations ==
    rt_pc = "twice" =>
        /\ new2["type"] = new["type"]
        /\ new2["text"] = [content |-> ""]
        /\ ("annotations" \in DOMAIN new2) = ("annotations" \in DOMAIN new)
        /\ Get(new2, "annotations", EmptyDict) = Get(new, "annotations", EmptyDict)
        /\ (new2 = new) = (new["text"] = [content |-> ""])

\* C8 witness: an annotated, linked text run converted twice.
C8_Witness ==
    /\ rt_pc = "twice"
    /\ new["text"] = [content |-> "Notes", link |-> [url |-> "https://example.org"]]
    /\ "annotations" \in DOMAIN new

\* the keys under which the else branch finds rich text, in search order
C9_SearchOrder ==
    <<"paragraph", "heading_1", "heading_2", "heading_3", "bulleted_list_item",
      "numbered_list_item">>
C9_HoldsText(b, k) ==
    /\ k \in DOMAIN b
    /\ TruthyDict(b[k])
    /\ Get(b[k], "rich_text", << >>) # << >>
C9_Unsupported(b) == Get(b, "type", NoneStr) \notin SupportedTypes
C9_Contents(rts) == [i \in 1..Len(rts) |-> rts[i]["text"]["content"]]
C9_PlainTexts(rts) == [i \in 1..Len(rts) |-> Get(rts[i], "plain_text", "")]

\* C9 (as claimed): a block of unsupported type that holds non-empty rich text
\* under any of the ten text-bearing container keys converts to a paragraph
\* carrying that text.
C9_AnyContainerKeySalvaged ==
    (conv_pc = "returned" /\ C9_Unsupported(block)) =>
        /\ base["type"] = "paragraph"
        /\ (\E k \in RichTextTypes : C9_HoldsText(block, k)) =>
              \E k \in RichTextTypes :
                 /\ C9_HoldsText(block, k)
                 /\ C9_Contents(base["paragraph"]["rich_text"])
                       = C9_PlainTexts(block[k]["rich_text"])

\* C9 (amended): a block of unsupported type converts to a paragraph; if it
\* holds non-empty rich text under one of paragraph, heading_1..3,
\* bulleted_list_item, numbered_list_item, the paragraph carries the text of
\* the first such key, converted run by run; otherwise (also when the only
\* text is under quote, callout, code or to_do) the paragraph's text is
\* exactly the placeholder naming the type.
C9_FallbackParagraph ==
    (conv_pc = "returned" /\ C9_Unsupported(block)) =>
        LET hits == {i \in 1..Len(C9_SearchOrder) : C9_HoldsText(block, C9_SearchOrder[i])}
        IN  /\ base["type"] = "paragraph"
            /\ base["object"] = "block"
            /\ IF hits # {}
               THEN LET k == C9_SearchOrder[CHOOSE i \in hits : \A j \in hits : i <= j]
                    IN  /\ base["paragraph"]["rich_text"]
                              = [i \in 1..Len(block[k]["rich_text"]) |->
                                    convert_rich_text_item(block[k]["rich_text"][i])]
                        /\ C9_Contents(base["paragraph"]["rich_text"])
                              = C9_PlainTexts(block[k]["rich_text"])
               ELSE C9_Contents(base["paragraph"]["rich_text"])
                       = <<"[Unsupported block type copied as placeholder: "
                             \o Get(block, "type", "None") \o "]">>

\* C9 witness: text under two searched keys; the earlier key in the order wins.
C9_Witness ==
    /\ conv_pc = "returned"
    /\ C9_Unsupported(block)
    /\ C9_HoldsText(block, "numbered_list_item")
    /\ C9_HoldsText(block, "heading_1")
    /\ C9_Contents(base["paragraph"]["rich_text"]) = <<"heading_1">>

----------------------------------------------------------------------------
(* Claims about the Metadata Inferrer *)

C10_Min(S) == CHOOSE i \in S : \A j \in S : i <= j
C10_First8(pid) == [i \in 1..8 |-> pid[i]]
C10_HeadingOrParagraph == {"heading_1", "heading_2", "heading_3", "paragraph"}
\* the text the API rendered for a title attribute / for a child block
C10_PropText(v) == plain_text_from_rich_text(Get(v, "title", << >>))
C10_BlockText(b) == plain_text_from_rich_text(Get(b[b["type"]], "rich_text", << >>))
C10_Blank(s) == \A i \in 1..Len(s) : IsSpace(s[i])
\* t is s without its leading and trailing whitespace
C10_IsTrimOf(t, s) ==
    /\ t # << >>
    /\ ~IsSpace(t[1])
    /\ ~IsSpace(t[Len(t)])
    /\ \E i \in 1..Len(s) :
          /\ i + Len(t) - 1 <= Len(s)
          /\ t = SubSeq(s, i, i + Len(t) - 1)
          /\ \A k \in 1..Len(s) : (k < i \/ k > i + Len(t) - 1) => IsSpace(s[k])
C10_Listed == SubSeq(page_children, 1, IF Len(page_children) < 50 THEN Len(page_children) ELSE 50)

\* C10 (as claimed): (a) a title attribute with non-empty rendered text gives
\* the title, and no child blocks are fetched; (b) otherwise the first
\* non-empty rendered text among the headings and paragraphs of the first 50
\* child blocks; (c) otherwise the prefix and 8 characters of the page id;
\* never empty.
C10_TitleFromRenderedText ==
    meta_pc = "returned" =>
        LET props   == page["properties"]
            titled  == {i \in 1..Len(props) :
                          props[i]["type"] = "title" /\ C10_PropText(props[i]) # << >>}
            texted  == {i \in 1..Len(C10_Listed) :
                          /\ C10_Listed[i]["type"] \in C10_HeadingOrParagraph
                          /\ C10_BlockText(C10_Listed[i]) # << >>}
        IN  /\ title # << >>
            /\ IF titled # {}
               THEN /\ title = C10_PropText(props[C10_Min(titled)])
                    /\ meta_calls = <<"pages.retrieve">>
               ELSE IF texted # {}
               THEN title = C10_BlockText(C10_Listed[C10_Min(texted)])
               ELSE title = ImportedPrefix \o C10_First8(page_id)

\* C10 (amended): the same order, with every rendered text stripped of its
\* surrounding whitespace before it is tested and used: (a) the first title
\* attribute whose text is not blank gives the title, stripped, and only the
\* page is retrieved; (b) otherwise the children are listed, and the first
\* heading or paragraph among the first 50 whose text is not blank gives the
\* title, stripped; (c) otherwise the prefix and the first 8 characters of the
\* page id.  The title is never empty.
C10_TitleResolution ==
    meta_pc = "returned" =>
        LET props   == page["properties"]
            titled  == {i \in 1..Len(props) :
                          props[i]["type"] = "title" /\ ~C10_Blank(C10_PropText(props[i]))}
            texted  == {i \in 1..Len(C10_Listed) :
                          /\ C10_Listed[i]["type"] \in C10_HeadingOrParagraph
                          /\ ~C10_Blank(C10_BlockText(C10_Listed[i]))}
        IN  /\ title # << >>
            /\ title # NoneText
            /\ IF titled # {}
               THEN /\ C10_IsTrimOf(title, C10_PropText(props[C10_Min(titled)]))
                    /\ meta_calls = <<"pages.retrieve">>
               ELSE /\ meta_calls = <<"pages.retrieve", "blocks.children.list">>
                    /\ IF texted # {}
                       THEN C10_IsTrimOf(title, C10_BlockText(C10_Listed[C10_Min(texted)]))
                       ELSE title = ImportedPrefix \o C10_First8(page_id)

\* C10 witness: the title attribute is blank, the first child is a blank
\* heading, the second child's heading text is taken, stripped.
C10_Witness ==
    /\ meta_pc = "returned"
    /\ Len(page["properties"]) = 2
    /\ page["properties"][2] = [type |-> "title", title |-> <<MetaRun(Txt_Space)>>]
    /\ Len(page_children) = 2
    /\ page_children[1]["type"] = "heading_2"
    /\ page_children[2]["type"] = "heading_3"
    /\ title = <<"H", "3">>

\* further C10 cases reached: the title attribute wins; the synthesized title
C10_WitnessTitleAttribute ==
    /\ meta_pc = "returned"
    /\ title = <<"H", "i">>
    /\ page_children # << >>
    /\ meta_calls = <<"pages.retrieve">>
C10_WitnessSynthesized ==
    /\ meta_pc = "returned"
    /\ title = ImportedPrefix \o <<"1", "a", "2", "b", "3", "c", "4", "d">>
    /\ page_children # << >>

----------------------------------------------------------------------------
(* Claims about the date: guess_title_and_date_from_page, migrate_page *)

C11_WellFormedDate(d) == Len(d) = 10 /\ DateMatchAt(d, 1)

\* the text the title was resolved from (none when the title is synthesized)
C11_ResolvedTitle == ResolvedTitle(page, page_children)
C11_TitleHasDate == ~Falsy(C11_ResolvedTitle) /\ DateMatches(C11_ResolvedTitle) # {}
C11_Created == Get(page, "created_time", NoneText)
\* the creation timestamp is an ISO timestamp: a date, then T, then the time
C11_CreatedWellFormed ==
    /\ C11_Created # NoneText
    /\ Len(C11_Created) > 10
    /\ DateMatchAt(C11_Created, 1)
    /\ C11_Created[11] = "T"

\* C11 (date resolution): the date migrate_page passes to create_database_page
\* is the first YYYY-MM-DD substring of the resolved title when there is one;
\* otherwise the date portion of the creation timestamp; when the timestamp
\* is missing or malformed it is the current date; so it is always a
\* well-formed date.
C11_DateResolution ==
    meta_pc = "dated" =>
        /\ C11_TitleHasDate =>
              \E i \in DateMatches(C11_ResolvedTitle) :
                 /\ \A k \in DateMatches(C11_ResolvedTitle) : i <= k
                 /\ create_date_iso = SubSeq(C11_ResolvedTitle, i, i + 9)
        /\ (~C11_TitleHasDate /\ C11_CreatedWellFormed) =>
              create_date_iso = SubSeq(C11_Created, 1, 10)
        /\ (~C11_TitleHasDate /\ ~C11_CreatedWellFormed) => create_date_iso \in UtcToday
        /\ C11_WellFormedDate(create_date_iso)

----------------------------------------------------------------------------
(* Claims about extract_page_id *)

C12_IsHex(c) == IsLowerHex(c) \/ c \in {"A", "B", "C", "D", "E", "F"}
C12_Lower(c) ==
    CASE c = "A" -> "a" [] c = "B" -> "b" [] c = "C" -> "c"
      [] c = "D" -> "d" [] c = "E" -> "e" [] c = "F" -> "f" [] OTHER -> c
C12_LowerAll(s) == [i \in 1..Len(s) |-> C12_Lower(s[i])]
\* eight, four, four, four and twelve hexadecimal digits with dashes between
C12_WellFormedDashed(s) ==
    /\ Len(s) = 36
    /\ \A k \in 1..36 : IF k \in {9, 14, 19, 24} THEN s[k] = "-" ELSE C12_IsHex(s[k])

\* C12 (identifier canonicalization): for a line built around a 32-digit
\* hexadecimal identifier, in any letter case, extract_page_id returns the
\* dashed form of that identifier, and returns the same for the line built
\* around the identifier's other form (dashed or undashed); on any line the
\* result is not-found or a well-formed dashed identifier.
C12_Canonicalization ==
    ext_pc = "returned" =>
        /\ extracted = NoneText \/ C12_WellFormedDashed(extracted)
        /\ ext_id # << >> =>
              /\ extracted # NoneText
              /\ extracted = extract_page_id(ext_other)
              /\ C12_LowerAll(extracted) = C12_LowerAll(Dashed(ext_id))

----------------------------------------------------------------------------
(* Claims about the order of a page's API calls: migrate_page *)

C13_Stage(by) ==
    CASE by = "fetch_all_children" -> 1
      [] by = "guess_title_and_date_from_page" -> 2
      [] by = "create_database_page" -> 3
      [] by = "append_children_to_page" -> 4
      [] OTHER -> 0
C13_At(op) == {i \in 1..Len(calls) : calls[i].op = op}
C13_By(by) == {i \in 1..Len(calls) : calls[i].by = by}
C13_Writes == {CreateOp, AppendOp}

\* C13 (stage order within a live page): the calls are issued by
\* fetch_all_children, then guess_title_and_date_from_page, then
\* create_database_page, then append_children_to_page, in that order.
\* pages.create is issued at most once, after the fetch has returned and
\* after the metadata lookup and the schema retrieval; no append is issued
\* before pages.create has returned an identifier; a page that fails in the
\* fetch or in the metadata lookup has issued no write and has no destination
\* page.
C13_StageOrder ==
    ~DRY_RUN =>
        /\ \A i, j \in 1..Len(calls) :
              i < j => C13_Stage(calls[i].by) <= C13_Stage(calls[j].by)
        /\ \A i \in 1..Len(calls) : C13_Stage(calls[i].by) > 0
        /\ Cardinality(C13_At(CreateOp)) <= 1
        /\ \A i \in C13_At(CreateOp) :
              /\ fetch_stack = << >>
              /\ \E j \in C13_By("fetch_all_children") : j < i
              /\ \E j \in C13_At(PageOp) : j < i
              /\ \E j \in C13_At(DatabaseOp) : j < i
              /\ i = Len(calls) \/ new_page_id # NoId
        /\ \A i \in C13_At(AppendOp) :
              /\ \E j \in C13_At(CreateOp) : j < i
              /\ new_page_id[1] = "page"
              /\ \A d \in 1..Len(dest) :
                    dest[d].parent = new_page_id \/ dest[d].parent[1] = "block"
        /\ (error.kind = "api" /\ calls[Len(calls)].by \in
                {"fetch_all_children", "guess_title_and_date_from_page"}) =>
              /\ \A i \in 1..Len(calls) : calls[i].op \notin C13_Writes
              /\ new_page_id = NoId
              /\ dest = << >>

\* a live page went through every stage: two list calls of the fetch, the
\* metadata lookup with its own list call, the schema retrieval, the create
\* and two appends
C13_Witness ==
    /\ ~DRY_RUN
    /\ pc = "job_end"
    /\ ok
    /\ Cardinality(C13_By("fetch_all_children")) = 2
    /\ Cardinality(C13_By("guess_title_and_date_from_page")) = 2
    /\ Cardinality(C13_By("create_database_page")) = 2
    /\ Cardinality(C13_By("append_children_to_page")) = 2

----------------------------------------------------------------------------
(* Claims about the Fetcher: fetch_all_children *)

\* the list calls of fetch_all_children, by position in the page's calls
C14_Requests == {i \in 1..Len(calls) : calls[i].by = "fetch_all_children"}
C14_RequestsFor(block_id) == {i \in C14_Requests : calls[i].block_id = block_id}
C14_IsPrefix(p, q) == Len(p) <= Len(q) /\ SubSeq(q, 1, Len(p)) = p

\* what the source holds under the block at path: each child as the API
\* lists it, a child with children carrying them in "_children"
RECURSIVE C14_Subtree(_, _)
C14_Subtree(forest, path) ==
    [i \in 1..Len(forest) |->
        LET raw == RawBlock(Append(path, i), forest[i])
        IN  IF Children(forest[i]) = << >> THEN raw
            ELSE ("_children" :> C14_Subtree(Children(forest[i]), Append(path, i))) @@ raw]

\* the blocks of the source that have children, and the page itself
RECURSIVE C14_Parents(_, _)
C14_Parents(forest, path) ==
    {path} \cup UNION {C14_Parents(Children(forest[i]), Append(path, i)) :
                          i \in {k \in 1..Len(forest) : Children(forest[k]) # << >>}}

C14_FetchReturned ==
    /\ C14_Requests # {}
    /\ \A i \in C14_Requests : calls[i].answered
    /\ pc # "fetch"

\* C14 (fetcher completeness and order): the first list call for a block has
\* no cursor and each later one has the cursor of the block's previous
\* answer; the calls for a block's subtree are made in one run, before the
\* caller lists anything else.  When the fetch has returned, every listed
\* block was paged to the end, and the result is the page's children in API
\* order, once each, each with its complete subtree in "_children".  While
\* the fetch runs and when a list call failed, at any depth, the caller has
\* received nothing.
C14_FetcherComplete ==
    /\ \A i \in C14_Requests :
          LET earlier == {j \in C14_RequestsFor(calls[i].block_id) : j < i}
          IN  IF earlier = {} THEN calls[i].start_cursor = 0
              ELSE LET j == CHOOSE m \in earlier : \A k \in earlier : k <= m
                   IN  /\ calls[j].answered
                       /\ calls[j].next_cursor # 0
                       /\ calls[i].start_cursor = calls[j].next_cursor
    /\ \A i, k \in C14_Requests :
          (i < k /\ calls[i].block_id # << >>
             /\ C14_IsPrefix(calls[i].block_id, calls[k].block_id)) =>
                \A j \in i..k : C14_IsPrefix(calls[i].block_id, calls[j].block_id)
    /\ C14_FetchReturned =>
          /\ \A p \in C14_Parents(src_tree, << >>) :
                /\ C14_RequestsFor(p) # {}
                /\ \E i \in C14_RequestsFor(p) :
                      /\ \A j \in C14_RequestsFor(p) : j <= i
                      /\ calls[i].next_cursor = 0
          /\ \A i \in C14_Requests : calls[i].block_id \in C14_Parents(src_tree, << >>)
          /\ src_children = C14_Subtree(src_tree, << >>)
    /\ pc = "fetch" => src_children = << >>
    /\ \A i \in C14_Requests : ~calls[i].answered =>
          /\ i = Len(calls)
          /\ src_children = << >>
          /\ fetch_stack = << >>
          /\ error = [kind |-> "api", op |-> ListOp]
          /\ pc \in {"job_end", "main", "done"}
          /\ ~outcomes[Len(outcomes)]

\* the fetch has returned two blocks that came on two pages, the first with
\* a child of its own
C14_Witness ==
    /\ pc = "fetch_sleep"
    /\ Len(src_children) = 2
    /\ "_children" \in DOMAIN src_children[1]
    /\ Len(src_children[1]["_children"]) = 1
    /\ \E i \in C14_RequestsFor(<< >>) : calls[i].start_cursor = 2

\* a list call failed two levels down, after the page's first answer
C14_WitnessFailure ==
    /\ pc = "job_end"
    /\ Len(calls) = 3
    /\ ~calls[3].answered
    /\ calls[3].block_id = <<1, 1>>

----------------------------------------------------------------------------
(* Claims about the discovery walk: children_page_ids_from_parent *)

C15_FirstRequests(id) ==
    {i \in 1..Len(walk_requests) :
        walk_requests[i].block_id = id /\ walk_requests[i].start_cursor = 0}
C15_NoDuplicates(seq) == \A i, j \in 1..Len(seq) : seq[i] = seq[j] => i = j
C15_Listed(id) == {walk_kids[id][i] : i \in 1..Len(walk_kids[id])}

\* the walk never lists a block other than the parent twice, never asks for
\* one page twice, lists only the parent when it is not recursive, and
\* returns child_page identifiers it has seen, each once
C15_Safe ==
    /\ \A id \in WalkIds \ {parent_id} : Cardinality(C15_FirstRequests(id)) <= 1
    /\ \A i, j \in 1..Len(walk_requests) :
          (walk_requests[i] = walk_requests[j] /\ walk_requests[i].block_id # parent_id)
             => i = j
    /\ ~recursive => \A i \in 1..Len(walk_requests) : walk_requests[i].block_id = parent_id
    /\ walk_pc = "returned" =>
          /\ C15_NoDuplicates(out)
          /\ \A i \in 1..Len(out) :
                /\ walk_types[out[i]] = "child_page"
                /\ out[i] \in visited_blocks
          /\ ~recursive => \A i \in 1..Len(out) : out[i] \in C15_Listed(parent_id)

\* C15 (the discovery walk terminates without duplicates): on every
\* workspace, also when a block is listed under several parents or lists its
\* ancestor, the walk comes to its end; the children of a block other than
\* the root are requested at most once, every identifier is returned at most
\* once, and a non-recursive walk lists the parent only.
C15_WalkTerminates == []C15_Safe /\ <>(walk_pc \in {"returned", "raised"})

\* a recursive walk has returned from a workspace where the child page a is
\* listed under r and under itself, and lists its ancestor r
C15_Witness ==
    /\ walk_pc = "returned"
    /\ recursive
    /\ walk_kids["r"] = <<"a">>
    /\ walk_kids["a"] = <<"a", "r">>
    /\ Len(walk_requests) = 3
    /\ out = <<"a", "r">>

=============================================================================
